---- MODULE Spec2Model ----
(***************************************************************************)
(* A model of pydy.system.System: the three configuration dicts           *)
(* (constants, specifieds, initial conditions), their validation and      *)
(* padding with defaults, the lazily generated ode function and integrate. *)
(*                                                                         *)
(* Python dicts are objects with identity: the setters store the reference *)
(* they are given and the getters hand the stored object out, so the       *)
(* model keeps a heap of dict objects and every System field is an address *)
(* into it.  A dict is a function from keys to values.                     *)
(***************************************************************************)
EXTENDS Integers, Sequences, FiniteSets, TLC

VARIABLES heap, sys, backendCalls, outcome

vars == <<heap, sys, backendCalls, outcome>>

(***************************************************************************)
(* Bounds of the model.                                                    *)
(***************************************************************************)
\* the backend is invoked at most this many times in one behaviour
MaxCompiles == 2

(***************************************************************************)
(* The symbolic model (eom_method), read-only.                             *)
(***************************************************************************)
Range(s) == {s[n] : n \in DOMAIN s}

\* eom_method._q
coordinates == <<"q1">>

\* eom_method._u
speeds == <<"u1">>

\* the state vector with the speeds first
states_SpeedsFirst == speeds \o coordinates

\* System.states: coordinates + speeds (list concatenation)
states == coordinates \o speeds

\* what eom_method._find_othersymbols returns: the constants and the time symbol
find_othersymbols == <<"m", "t", "k">>

\* list.remove(x): drops the first occurrence of x
RECURSIVE ListRemove(_, _)
ListRemove(l, x) ==
    IF l = <<>> THEN <<>>
    ELSE IF Head(l) = x THEN Tail(l)
    ELSE <<Head(l)>> \o ListRemove(Tail(l), x)

\* System._Kane_constant_symbols, stored as _constants_symbols by __init__
constants_symbols == ListRemove(find_othersymbols, "t")

\* System._Kane_undefined_dynamicsymbols, stored as _specifieds_symbols
specifieds_symbols == <<"f1", "f2">>

(***************************************************************************)
(* Dicts.                                                                  *)
(***************************************************************************)
EmptyDict == <<>>

\* dict(a.items() + b.items()): on a key of both, the later item wins
DictOfItems(a, b) ==
    [k \in (DOMAIN a) \cup (DOMAIN b) |-> IF k \in DOMAIN b THEN b[k] ELSE a[k]]

\* d[k] = v on a dict d
DictSetItem(d, k, v) ==
    [x \in (DOMAIN d) \cup {k} |-> IF x = k THEN v ELSE d[x]]

\* del d[k]
DictDelItem(d, k) == [x \in (DOMAIN d) \ {k} |-> d[x]]

\* A key of the specifieds dict: one symbol, or a tuple of symbols.
Single(s) == [tuple |-> FALSE, syms |-> <<s>>]
Tuple(ss) == [tuple |-> TRUE, syms |-> ss]

\* isinstance(k, tuple)
IsTuple(k) == k.tuple

(***************************************************************************)
(* Validation.  Every check returns the error it raises, or NoError.       *)
(***************************************************************************)
NoError == "none"
InvalidSymbolError == "InvalidSymbolError"
DuplicateSymbolError == "DuplicateSymbolError"

\* System._check_constants: the first key that is no constant raises
_check_constants(constants) ==
    IF \E k \in DOMAIN constants : k \notin Range(constants_symbols)
    THEN InvalidSymbolError ELSE NoError

\* System._check_initial_conditions
_check_initial_conditions(initial_conditions) ==
    IF \E k \in DOMAIN initial_conditions : k \notin Range(states)
    THEN InvalidSymbolError ELSE NoError

\* System._assert_is_specified_symbol, over the symbols of one key
_assert_is_specified_symbol(k, symbols) ==
    IF \E n \in DOMAIN k.syms : k.syms[n] \notin Range(symbols)
    THEN InvalidSymbolError ELSE NoError

\* System._assert_symbol_appears_multiple_times, over the symbols of one key
\* in order, each symbol appended to symbols_so_far after its test; the
\* result is <<error, symbols_so_far>>
RECURSIVE _assert_symbol_appears_multiple_times(_, _)
_assert_symbol_appears_multiple_times(syms, symbols_so_far) ==
    IF syms = <<>> THEN <<NoError, symbols_so_far>>
    ELSE IF Head(syms) \in Range(symbols_so_far)
         THEN <<DuplicateSymbolError, symbols_so_far>>
         ELSE _assert_symbol_appears_multiple_times(
                  Tail(syms), Append(symbols_so_far, Head(syms)))

\* a loop that forgets the symbols of the keys it has passed
RECURSIVE CheckSpecifiedsLoop_PerKey(_, _)
CheckSpecifiedsLoop_PerKey(keys, symbols_so_far) ==
    IF keys = <<>> THEN NoError
    ELSE LET k == Head(keys)
             isSpecified == _assert_is_specified_symbol(k, specifieds_symbols)
             seen == _assert_symbol_appears_multiple_times(k.syms, symbols_so_far)
         IN  IF isSpecified # NoError THEN isSpecified
             ELSE IF seen[1] # NoError THEN seen[1]
             ELSE CheckSpecifiedsLoop_PerKey(Tail(keys), <<>>)

\* the loop of System._check_specifieds over the keys in the order items()
\* yields them
RECURSIVE CheckSpecifiedsLoop(_, _)
CheckSpecifiedsLoop(keys, symbols_so_far) ==
    IF keys = <<>> THEN NoError
    ELSE LET k == Head(keys)
             isSpecified == _assert_is_specified_symbol(k, specifieds_symbols)
             seen == _assert_symbol_appears_multiple_times(k.syms, symbols_so_far)
         IN  IF isSpecified # NoError THEN isSpecified
             ELSE IF seen[1] # NoError THEN seen[1]
             ELSE CheckSpecifiedsLoop(Tail(keys), seen[2])

\* System._check_specifieds, with the order in which the dict yields its keys
_check_specifieds(specifieds, order) == CheckSpecifiedsLoop(order, <<>>)

\* the sequences that hold every element of S once
RECURSIVE Permutations_(_)
Permutations_(S) ==
    IF S = {} THEN {<<>>}
    ELSE UNION {{<<x>> \o p : p \in Permutations_(S \ {x})} : x \in S}

\* the orders in which a dict may yield its keys: a Python 2 dict iterates in
\* hash-table order, which the caller does not control
Orders(d) == Permutations_(DOMAIN d)

(***************************************************************************)
(* Padding with defaults.                                                  *)
(***************************************************************************)
\* a padding that gives every constant its default, set or not
_constants_padded_with_defaults_DefaultsWin(constants) ==
    DictOfItems(constants, [s \in Range(constants_symbols) |-> 1])

\* System._constants_padded_with_defaults
_constants_padded_with_defaults(constants) ==
    DictOfItems(constants,
        [s \in {x \in Range(constants_symbols) : x \notin DOMAIN constants} |-> 1])

\* a lookup that does not search the tuple keys
_symbol_is_in_specifieds_dict_NoTuples(symbol, specifieds_dict) ==
    \E k \in DOMAIN specifieds_dict : ~IsTuple(k) /\ k.syms[1] = symbol

\* System._symbol_is_in_specifieds_dict
_symbol_is_in_specifieds_dict(symbol, specifieds_dict) ==
    \E k \in DOMAIN specifieds_dict :
        \/ (~IsTuple(k) /\ k.syms[1] = symbol)
        \/ (IsTuple(k) /\ symbol \in Range(k.syms))

\* System._specifieds_padded_with_defaults
_specifieds_padded_with_defaults(specifieds) ==
    DictOfItems(specifieds,
        [k \in {Single(s) : s \in {x \in Range(specifieds_symbols) :
                    ~_symbol_is_in_specifieds_dict(x, specifieds)}} |-> 0])

\* System._initial_conditions_padded_with_defaults
_initial_conditions_padded_with_defaults(initial_conditions) ==
    DictOfItems(initial_conditions,
        [s \in {x \in Range(states) : x \notin DOMAIN initial_conditions} |-> 0])

(***************************************************************************)
(* The heap and the System objects.                                        *)
(***************************************************************************)
Fields == {"constants", "specifieds", "initial_conditions"}

\* The address of a dict object.  Owner 0 is the function object of
\* __init__, which holds the dict() objects of its default arguments: they
\* are created once, when the def statement runs.  Owner i > 0 is the caller
\* of System i: the dict it last built for that field.
DefaultArg(field) == [owner |-> 0, field |-> field]
CallerDict(i, field) == [owner |-> i, field |-> field]
Addr(insts) == [owner : {0} \cup insts, field : Fields]

\* no ode function generated yet
None == [id |-> 0, generator |-> "None"]

\* values that have a __call__ attribute
Callables == {"odeint", "rk4"}

\* an omitted constructor argument, and one the caller passes
Omitted == [given |-> FALSE]
Given(v) == [given |-> TRUE, value |-> v]

\* the result of the operation last performed
Outcome(op, i, arg, raised, call, ret) ==
    [op |-> op, inst |-> i, arg |-> arg, raised |-> raised, call |-> call,
     ret |-> ret]

\* the integrator was not invoked
NoCall == [made |-> FALSE]

\* the dict object a field of System i refers to, and its current content
Ref(s, i, field) ==
    CASE field = "constants" -> s[i]._constants
      [] field = "specifieds" -> s[i]._specifieds
      [] field = "initial_conditions" -> s[i]._initial_conditions

\* System.constants, System.specifieds, System.initial_conditions (getters):
\* the stored dict itself, not a copy
Get(h, s, i, field) == h[Ref(s, i, field)]

\* the three property setters store the reference they are given: the
\* caller's dict, or the dict of the default argument
StoreArg(i, field, arg) ==
    IF arg.given THEN CallerDict(i, field) ELSE DefaultArg(field)

\* System.__init__ without the validation: the fields it assigns
__init__(i, constants, specifieds, ode_solver, initial_conditions) ==
    [_constants |-> StoreArg(i, "constants", constants),
     _specifieds |-> StoreArg(i, "specifieds", specifieds),
     _ode_solver |-> ode_solver,
     _initial_conditions |-> StoreArg(i, "initial_conditions", initial_conditions),
     _evaluate_ode_function |-> None]

\* the content of the dict an argument denotes, the default arguments being
\* empty when the first System is constructed
ArgDict(arg) == IF arg.given THEN arg.value ELSE EmptyDict

\* System.__init__ returns an object only if none of its setters raises
InitAccepts(constants, specifieds, ode_solver, initial_conditions) ==
    /\ _check_constants(ArgDict(constants)) = NoError
    /\ \A o \in Orders(ArgDict(specifieds)) :
           _check_specifieds(ArgDict(specifieds), o) = NoError
    /\ ode_solver \in Callables
    /\ _check_initial_conditions(ArgDict(initial_conditions)) = NoError

(***************************************************************************)
(* The code generation backend (pydy.codegen.code.generate_ode_function):  *)
(* every call builds a new function object; n is the number of calls made  *)
(* before this one.                                                        *)
(***************************************************************************)
codegen_generate_ode_function(n, generator) ==
    [id |-> n + 1, generator |-> generator]

(***************************************************************************)
(* The operations.                                                         *)
(***************************************************************************)
\* a setter that drops the generated ode function when the constants change
set_constants_Invalidating(i, constants) ==
    LET err == _check_constants(constants)
    IN  /\ IF err # NoError
           THEN /\ UNCHANGED <<heap, sys>>
                /\ outcome' = Outcome("set_constants", i, constants, err, NoCall, None)
           ELSE /\ heap' = [heap EXCEPT ![CallerDict(i, "constants")] = constants]
                /\ sys' = [sys EXCEPT ![i]._constants = CallerDict(i, "constants"),
                                      ![i]._evaluate_ode_function = None]
                /\ outcome' = Outcome("set_constants", i, constants, NoError, NoCall, None)
        /\ UNCHANGED backendCalls

\* a setter that stores the dict before it checks it
set_constants_StoreFirst(i, constants) ==
    LET err == _check_constants(constants)
    IN  /\ heap' = [heap EXCEPT ![CallerDict(i, "constants")] = constants]
        /\ sys' = [sys EXCEPT ![i]._constants = CallerDict(i, "constants")]
        /\ outcome' = Outcome("set_constants", i, constants, err, NoCall, None)
        /\ UNCHANGED backendCalls

\* System.constants (setter)
set_constants(i, constants) ==
    LET err == _check_constants(constants)
    IN  /\ IF err # NoError
           THEN /\ UNCHANGED <<heap, sys>>
                /\ outcome' = Outcome("set_constants", i, constants, err, NoCall, None)
           ELSE /\ heap' = [heap EXCEPT ![CallerDict(i, "constants")] = constants]
                /\ sys' = [sys EXCEPT ![i]._constants = CallerDict(i, "constants")]
                /\ outcome' = Outcome("set_constants", i, constants, NoError, NoCall, None)
        /\ UNCHANGED backendCalls

\* System.specifieds (setter); order is the order in which the dict yields
\* its keys
set_specifieds(i, specifieds, order) ==
    LET err == _check_specifieds(specifieds, order)
    IN  /\ IF err # NoError
           THEN /\ UNCHANGED <<heap, sys>>
                /\ outcome' = Outcome("set_specifieds", i, specifieds, err, NoCall, None)
           ELSE /\ heap' = [heap EXCEPT ![CallerDict(i, "specifieds")] = specifieds]
                /\ sys' = [sys EXCEPT ![i]._specifieds = CallerDict(i, "specifieds")]
                /\ outcome' = Outcome("set_specifieds", i, specifieds, NoError, NoCall, None)
        /\ UNCHANGED backendCalls

\* System.initial_conditions (setter)
set_initial_conditions(i, initial_conditions) ==
    LET err == _check_initial_conditions(initial_conditions)
    IN  /\ IF err # NoError
           THEN /\ UNCHANGED <<heap, sys>>
                /\ outcome' = Outcome("set_initial_conditions", i,
                                      initial_conditions, err, NoCall, None)
           ELSE /\ heap' = [heap EXCEPT
                               ![CallerDict(i, "initial_conditions")] = initial_conditions]
                /\ sys' = [sys EXCEPT
                              ![i]._initial_conditions = CallerDict(i, "initial_conditions")]
                /\ outcome' = Outcome("set_initial_conditions", i,
                                      initial_conditions, NoError, NoCall, None)
        /\ UNCHANGED backendCalls

\* System.ode_solver (setter)
set_ode_solver(i, ode_solver) ==
    /\ IF ode_solver \notin Callables
       THEN /\ UNCHANGED sys
            /\ outcome' = Outcome("set_ode_solver", i, ode_solver, "ValueError", NoCall, None)
       ELSE /\ sys' = [sys EXCEPT ![i]._ode_solver = ode_solver]
            /\ outcome' = Outcome("set_ode_solver", i, ode_solver, NoError, NoCall, None)
    /\ UNCHANGED <<heap, backendCalls>>

\* the caller writes into the dict a getter returned: sys.<field>[k] = v
getter_setitem(i, field, k, v) ==
    /\ heap' = [heap EXCEPT ![Ref(sys, i, field)] = DictSetItem(@, k, v)]
    /\ outcome' = Outcome("setitem", i, field, NoError, NoCall, None)
    /\ UNCHANGED <<sys, backendCalls>>

\* the caller deletes from the dict a getter returned: del sys.<field>[k]
getter_delitem(i, field, k) ==
    /\ k \in DOMAIN Get(heap, sys, i, field)
    /\ heap' = [heap EXCEPT ![Ref(sys, i, field)] = DictDelItem(@, k)]
    /\ outcome' = Outcome("delitem", i, field, NoError, NoCall, None)
    /\ UNCHANGED <<sys, backendCalls>>

\* the body of System.generate_ode_function: the fields of System i after it
GenerateOdeFunction(s, i, n, generator) ==
    [s EXCEPT ![i]._evaluate_ode_function = codegen_generate_ode_function(n, generator)]

\* a generate_ode_function that returns the function it holds, if any
generate_ode_function_Cached(i, generator) ==
    /\ backendCalls < MaxCompiles
    /\ IF sys[i]._evaluate_ode_function # None
       THEN UNCHANGED <<sys, backendCalls>>
       ELSE /\ sys' = GenerateOdeFunction(sys, i, backendCalls, generator)
            /\ backendCalls' = backendCalls + 1
    /\ outcome' = Outcome("generate_ode_function", i, generator, NoError, NoCall,
                          sys'[i]._evaluate_ode_function)
    /\ UNCHANGED heap

\* System.generate_ode_function, called by the user
generate_ode_function(i, generator) ==
    /\ backendCalls < MaxCompiles
    /\ sys' = GenerateOdeFunction(sys, i, backendCalls, generator)
    /\ backendCalls' = backendCalls + 1
    /\ outcome' = Outcome("generate_ode_function", i, generator, NoError, NoCall,
                          sys'[i]._evaluate_ode_function)
    /\ UNCHANGED heap

\* an integrate that generates the ode function on every call
NeedsCompile_Always(f) == TRUE

\* integrate compiles when evaluate_ode_function == None
NeedsCompile(f) == f = None

\* [init_conds_dict[k] for k in self.states]
InProperOrder(init_conds_dict) == [n \in DOMAIN states |-> init_conds_dict[states[n]]]

\* an integrate that trusts the setters and checks nothing
IntegrateChecks_Trusting(constants, specifieds, order, initial_conditions) == NoError

\* the first error of the three checks at the top of System.integrate
IntegrateChecks(constants, specifieds, order, initial_conditions) ==
    LET e1 == _check_constants(constants)
        e2 == _check_specifieds(specifieds, order)
        e3 == _check_initial_conditions(initial_conditions)
    IN  IF e1 # NoError THEN e1
        ELSE IF e2 # NoError THEN e2
        ELSE e3

\* the arguments System.integrate hands to ode_solver
SolverCall(s, h, i, times) ==
    [made |-> TRUE,
     solver |-> s[i]._ode_solver,
     f |-> s[i]._evaluate_ode_function,
     x0 |-> InProperOrder(
                _initial_conditions_padded_with_defaults(Get(h, s, i, "initial_conditions"))),
     t |-> times,
     args |-> [constants |-> _constants_padded_with_defaults(Get(h, s, i, "constants")),
               specified |-> _specifieds_padded_with_defaults(Get(h, s, i, "specifieds"))]]

\* System.integrate; order is the order in which the specifieds dict yields
\* its keys
integrate(i, times, order) ==
    LET err == IntegrateChecks(Get(heap, sys, i, "constants"),
                               Get(heap, sys, i, "specifieds"), order,
                               Get(heap, sys, i, "initial_conditions"))
        compile == NeedsCompile(sys[i]._evaluate_ode_function)
    IN  /\ compile => backendCalls < MaxCompiles
        /\ IF err # NoError
           THEN /\ UNCHANGED <<sys, backendCalls>>
                /\ outcome' = Outcome("integrate", i, times, err, NoCall, None)
           ELSE /\ sys' = IF compile
                          THEN GenerateOdeFunction(sys, i, backendCalls, "lambdify")
                          ELSE sys
                /\ backendCalls' = IF compile THEN backendCalls + 1 ELSE backendCalls
                /\ outcome' = Outcome("integrate", i, times, NoError,
                                      SolverCall(sys', heap, i, times), None)
        /\ UNCHANGED heap

(***************************************************************************)
(* What the callers do.                                                    *)
(***************************************************************************)
\* a value no default equals
Values == {5}

\* the dicts with keys in K and values in V
DictsOver(K, V) == UNION {[S -> V] : S \in SUBSET K}

\* keys callers use in a constants dict: the constants and a coordinate
ConstantsKeys == {"m", "q1"}

\* keys callers use in a specifieds dict
SpecifiedsKeys ==
    {Single("f1"), Single("q1"), Tuple(<<"f1", "f2">>), Tuple(<<"f2", "f1">>)}

\* keys callers use in an initial conditions dict: the states and a constant
InitialConditionsKeys == {"q1", "m"}

KeysOf(field) ==
    CASE field = "constants" -> ConstantsKeys
      [] field = "specifieds" -> SpecifiedsKeys
      [] field = "initial_conditions" -> InitialConditionsKeys

\* the dicts callers pass to the setters
ConstantsInputs == DictsOver(ConstantsKeys, Values)
SpecifiedsInputs == DictsOver(SpecifiedsKeys, Values)
InitialConditionsInputs == DictsOver(InitialConditionsKeys, Values)

Generators == {"lambdify", "cython"}

Times == {"linspace_0_5", "linspace_0_10"}

Instances == DOMAIN sys

\* sys = System(km, constants={..}, specifieds={..}, initial_conditions={..})
Init ==
    /\ \E c \in ConstantsInputs, s \in SpecifiedsInputs,
          ic \in InitialConditionsInputs :
          /\ InitAccepts(Given(c), Given(s), "odeint", Given(ic))
          /\ sys = [i \in {1} |-> __init__(i, Given(c), Given(s), "odeint", Given(ic))]
          /\ heap = [a \in Addr({1}) |->
                        CASE a = CallerDict(1, "constants") -> c
                          [] a = CallerDict(1, "specifieds") -> s
                          [] a = CallerDict(1, "initial_conditions") -> ic
                          [] OTHER -> EmptyDict]
    /\ backendCalls = 0
    /\ outcome = Outcome("__init__", 1, "km", NoError, NoCall, None)

\* One order for every result the check can have on each dict callers build:
\* the order of the keys acts on a step only through the error the check
\* raises, so these orders give the same steps as all of Orders(d).
OrdersByResult ==
    [d \in SpecifiedsInputs |->
        {CHOOSE o \in Orders(d) : _check_specifieds(d, o) = e :
            e \in {_check_specifieds(d, o) : o \in Orders(d)}}]

SetConstants ==
    \E i \in Instances : \E c \in ConstantsInputs :
        set_constants(i, c)

SetSpecifieds ==
    \E i \in Instances : \E s \in SpecifiedsInputs :
        \E o \in OrdersByResult[s] : set_specifieds(i, s, o)

SetInitialConditions ==
    \E i \in Instances : \E ic \in InitialConditionsInputs :
        set_initial_conditions(i, ic)

SetOdeSolver ==
    \E i \in Instances : \E o \in Callables \cup {"not_callable"} :
        set_ode_solver(i, o)

SetItem ==
    \E i \in Instances : \E f \in Fields : \E k \in KeysOf(f), v \in Values :
        getter_setitem(i, f, k, v)

DelItem ==
    \E i \in Instances : \E f \in Fields : \E k \in KeysOf(f) :
        getter_delitem(i, f, k)

Generate ==
    \E i \in Instances : \E g \in Generators : generate_ode_function(i, g)

Integrate ==
    \E i \in Instances : \E t \in Times :
        \E o \in OrdersByResult[Get(heap, sys, i, "specifieds")] :
            integrate(i, t, o)

Next ==
    \/ SetConstants
    \/ SetSpecifieds
    \/ SetInitialConditions
    \/ SetOdeSolver
    \/ SetItem
    \/ DelItem
    \/ Generate
    \/ Integrate

Spec == Init /\ [][Next]_vars

(***************************************************************************)
(* Two Systems built as System(km), with no dict argument: both take the   *)
(* dict objects of the default arguments.  Their callers set and edit the  *)
(* three mappings.                                                         *)
(***************************************************************************)
ConstantsInputsTwo == DictsOver({"m"}, Values)
SpecifiedsInputsTwo == DictsOver({Single("f1")}, Values)
InitialConditionsInputsTwo == DictsOver({"q1"}, Values)

KeysOfTwo(field) ==
    CASE field = "constants" -> {"m"}
      [] field = "specifieds" -> {Single("f1")}
      [] field = "initial_conditions" -> {"q1"}

InitTwo ==
    /\ InitAccepts(Omitted, Omitted, "odeint", Omitted)
    /\ sys = [i \in {1, 2} |-> __init__(i, Omitted, Omitted, "odeint", Omitted)]
    /\ heap = [a \in Addr({1, 2}) |-> EmptyDict]
    /\ backendCalls = 0
    /\ outcome = Outcome("__init__", 2, "km", NoError, NoCall, None)

SetConstantsTwo ==
    \E i \in Instances : \E c \in ConstantsInputsTwo : set_constants(i, c)

SetSpecifiedsTwo ==
    \E i \in Instances : \E s \in SpecifiedsInputsTwo :
        \E o \in Orders(s) : set_specifieds(i, s, o)

SetInitialConditionsTwo ==
    \E i \in Instances : \E ic \in InitialConditionsInputsTwo :
        set_initial_conditions(i, ic)

SetItemTwo ==
    \E i \in Instances : \E f \in Fields : \E k \in KeysOfTwo(f), v \in Values :
        getter_setitem(i, f, k, v)

DelItemTwo ==
    \E i \in Instances : \E f \in Fields : \E k \in KeysOfTwo(f) :
        getter_delitem(i, f, k)

NextTwo ==
    \/ SetConstantsTwo
    \/ SetSpecifiedsTwo
    \/ SetInitialConditionsTwo
    \/ SetItemTwo
    \/ DelItemTwo

SpecTwo == InitTwo /\ [][NextTwo]_vars

(***************************************************************************)
(* What the claims speak of.                                               *)
(***************************************************************************)
\* the content of a stored mapping of System i, before and after a step
Stored(i, field) == Get(heap, sys, i, field)
StoredAfter(i, field) == Get(heap', sys', i, field)

\* the validation rules of the three mappings, stated on the mapping
ConstantsValid(d) == DOMAIN d \subseteq Range(constants_symbols)

InitialConditionsValid(d) ==
    DOMAIN d \subseteq Range(coordinates) \cup Range(speeds)

\* the places of a specifieds mapping where a symbol stands
References(d) == UNION {{<<k, n>> : n \in DOMAIN k.syms} : k \in DOMAIN d}

ReferencesTo(d, s) == {r \in References(d) : r[1].syms[r[2]] = s}

SpecifiedsValid(d) ==
    /\ \A r \in References(d) : r[1].syms[r[2]] \in Range(specifieds_symbols)
    /\ \A s \in Range(specifieds_symbols) : Cardinality(ReferencesTo(d, s)) <= 1

\* two distinct keys reference the same symbol
SharesSymbol(d) ==
    \E k1, k2 \in DOMAIN d :
        k1 # k2 /\ Range(k1.syms) \cap Range(k2.syms) # {}

AllValid(i) ==
    /\ ConstantsValid(Stored(i, "constants"))
    /\ SpecifiedsValid(Stored(i, "specifieds"))
    /\ InitialConditionsValid(Stored(i, "initial_conditions"))

ValidationErrors == {InvalidSymbolError, DuplicateSymbolError}

(***************************************************************************)
(* The claims.                                                             *)
(***************************************************************************)
\* C1: a constants setter call whose mapping has a key outside the constant
\* symbols raises InvalidSymbolError and leaves the stored constants mapping
\* (the object referred to and its content) as it was, from every reachable
\* state.
C1_InvalidConstantsRejected ==
    [][(outcome'.op = "set_constants" /\ ~ConstantsValid(outcome'.arg))
        => /\ outcome'.raised = InvalidSymbolError
           /\ sys'[outcome'.inst]._constants = sys[outcome'.inst]._constants
           /\ StoredAfter(outcome'.inst, "constants")
                  = Stored(outcome'.inst, "constants")]_vars

\* C1 witness: a rejected constants setter call on a System that holds a
\* non-empty constants mapping
C1_Witness ==
    /\ outcome.op = "set_constants"
    /\ outcome.raised = InvalidSymbolError
    /\ "m" \in DOMAIN outcome.arg
    /\ Stored(outcome.inst, "constants") # EmptyDict
    /\ Stored(outcome.inst, "constants") # outcome.arg

\* C2 as stated: a specifieds setter call whose mapping has two distinct keys
\* that reference the same symbol raises DuplicateSymbolError, whatever else
\* the mapping holds and in whatever order the keys are visited.
C2_Original ==
    (outcome.op = "set_specifieds" /\ SharesSymbol(outcome.arg))
        => outcome.raised = DuplicateSymbolError

\* C2 amended: a specifieds setter call whose mapping has two distinct keys
\* that reference the same symbol always raises a validation error; the error
\* is DuplicateSymbolError when every symbol the mapping references is a
\* specified symbol, in whatever order the keys are visited.
C2_SharedSymbolRejected ==
    (outcome.op = "set_specifieds" /\ SharesSymbol(outcome.arg))
        => /\ outcome.raised \in ValidationErrors
           /\ (\A r \in References(outcome.arg) :
                   r[1].syms[r[2]] \in Range(specifieds_symbols))
                  => outcome.raised = DuplicateSymbolError

\* C2 witness: a setter call rejected for two overlapping tuple keys
C2_Witness ==
    /\ outcome.op = "set_specifieds"
    /\ DOMAIN outcome.arg = {Tuple(<<"f1", "f2">>), Tuple(<<"f2", "f1">>)}
    /\ outcome.raised = DuplicateSymbolError

\* C3: when integrate is called while a stored mapping breaks its validation
\* rule, it raises the validation error, generates no ode function and does
\* not invoke the integrator; the integrator is invoked only when the three
\* stored mappings are valid at the call.
C3_IntegrateRevalidates ==
    [][outcome'.op = "integrate"
        => /\ ~AllValid(outcome'.inst)
                  => /\ outcome'.raised \in ValidationErrors
                     /\ ~outcome'.call.made
                     /\ backendCalls' = backendCalls
                     /\ sys'[outcome'.inst]._evaluate_ode_function
                            = sys[outcome'.inst]._evaluate_ode_function
           /\ outcome'.call.made => AllValid(outcome'.inst)]_vars

\* C3 witness: integrate raised on a mapping edited in place, with no ode
\* function generated
C3_Witness ==
    /\ outcome.op = "integrate"
    /\ outcome.raised \in ValidationErrors
    /\ ~ConstantsValid(Stored(outcome.inst, "constants"))
    /\ sys[outcome.inst]._evaluate_ode_function = None
    /\ backendCalls = 0

\* C4 as stated: an explicit compile call made while a function is cached
\* returns the cached function, without invoking the backend and without
\* changing the stored function.
C4_Original ==
    [][(outcome'.op = "generate_ode_function"
            /\ sys[outcome'.inst]._evaluate_ode_function # None)
        => /\ backendCalls' = backendCalls
           /\ sys'[outcome'.inst]._evaluate_ode_function
                  = sys[outcome'.inst]._evaluate_ode_function
           /\ outcome'.ret = sys[outcome'.inst]._evaluate_ode_function]_vars

\* C4 amended: every explicit compile call invokes the backend once more and
\* installs and returns the function the backend built, which replaces the
\* cached one even though the symbolic input is the same; the cached function
\* is reused without a backend call only by integrate.
C4_CompileAlwaysRegenerates ==
    [][/\ outcome'.op = "generate_ode_function"
            => /\ backendCalls' = backendCalls + 1
               /\ sys'[outcome'.inst]._evaluate_ode_function
                      # sys[outcome'.inst]._evaluate_ode_function
               /\ sys'[outcome'.inst]._evaluate_ode_function.id = backendCalls'
               /\ sys'[outcome'.inst]._evaluate_ode_function.generator = outcome'.arg
               /\ outcome'.ret = sys'[outcome'.inst]._evaluate_ode_function
       /\ (outcome'.op = "integrate"
               /\ sys[outcome'.inst]._evaluate_ode_function # None)
            => /\ backendCalls' = backendCalls
               /\ sys'[outcome'.inst]._evaluate_ode_function
                      = sys[outcome'.inst]._evaluate_ode_function]_vars

\* C4 witness: a second explicit compile has installed the second function
\* the backend built
C4_Witness ==
    /\ outcome.op = "generate_ode_function"
    /\ backendCalls = 2
    /\ outcome.ret.id = 2
    /\ sys[outcome.inst]._evaluate_ode_function = outcome.ret

\* C5: for a stored constants mapping m with every key a constant symbol, the
\* padded mapping has exactly the constant symbols as keys, m's value where m
\* has one and 1.0 elsewhere; it is the mapping integrate hands on.
C5_ConstantsPadded ==
    \A i \in Instances :
        LET m == Stored(i, "constants")
            result == _constants_padded_with_defaults(m)
        IN  ConstantsValid(m)
                => /\ DOMAIN result = Range(constants_symbols)
                   /\ \A s \in DOMAIN result :
                          result[s] = IF s \in DOMAIN m THEN m[s] ELSE 1
                   /\ (outcome.inst = i /\ outcome.call.made)
                          => outcome.call.args.constants = result

\* C5 witness: integrate has handed on a set constant and a defaulted one
C5_Witness ==
    /\ outcome.op = "integrate"
    /\ outcome.call.made
    /\ Stored(outcome.inst, "constants") = [s \in {"m"} |-> 5]
    /\ outcome.call.args.constants["m"] = 5
    /\ outcome.call.args.constants["k"] = 1

\* C6: for a valid stored specifieds mapping m, the padded mapping keeps every
\* key of m with its value, its keys reference every specified symbol exactly
\* once and no other symbol, and the keys it adds are the single-symbol keys,
\* with value 0.0, of exactly the symbols no key of m references.
C6_SpecifiedsPadded ==
    \A i \in Instances :
        LET m == Stored(i, "specifieds")
            result == _specifieds_padded_with_defaults(m)
        IN  SpecifiedsValid(m)
                => /\ \A k \in DOMAIN m : k \in DOMAIN result /\ result[k] = m[k]
                   /\ \A s \in Range(specifieds_symbols) :
                          Cardinality(ReferencesTo(result, s)) = 1
                   /\ \A r \in References(result) :
                          r[1].syms[r[2]] \in Range(specifieds_symbols)
                   /\ \A s \in Range(specifieds_symbols) :
                          (ReferencesTo(m, s) = {})
                              <=> /\ Single(s) \in DOMAIN result \ DOMAIN m
                                  /\ result[Single(s)] = 0
                   /\ \A k \in DOMAIN result \ DOMAIN m :
                          \E s \in Range(specifieds_symbols) : k = Single(s)
                   /\ (outcome.inst = i /\ outcome.call.made)
                          => outcome.call.args.specified = result

\* C6 witness: integrate has handed on a mapping with one symbol set and the
\* other defaulted
C6_Witness ==
    /\ outcome.op = "integrate"
    /\ outcome.call.made
    /\ DOMAIN Stored(outcome.inst, "specifieds") = {Single("f1")}
    /\ outcome.call.args.specified[Single("f1")] = 5
    /\ outcome.call.args.specified[Single("f2")] = 0

\* C7: the initial state of a successful integrate call has one entry for
\* every state symbol, the coordinates first and then the speeds, each entry
\* the stored initial condition of its symbol, or 0.0 when none is stored.
C7_InitialStateOrdered ==
    (outcome.op = "integrate" /\ outcome.call.made)
        => LET ic == Stored(outcome.inst, "initial_conditions")
               x0 == outcome.call.x0
               nq == Len(coordinates)
           IN  /\ Len(x0) = nq + Len(speeds)
               /\ \A p \in 1..Len(x0) :
                      LET s == IF p <= nq THEN coordinates[p] ELSE speeds[p - nq]
                      IN  x0[p] = IF s \in DOMAIN ic THEN ic[s] ELSE 0

\* C7 witness: a set coordinate and a defaulted speed in the initial state
C7_Witness ==
    /\ outcome.op = "integrate"
    /\ outcome.call.made
    /\ outcome.call.x0 = <<5, 0>>

\* C8: an integrate call that follows at once a successful integrate call of
\* the same System with the same times invokes the integrator with the same
\* arguments, and no integrate call changes the three stored mappings or the
\* integrator.
C8_IntegrateRepeatable ==
    [][/\ (/\ outcome.op = "integrate" /\ outcome.call.made
           /\ outcome'.op = "integrate" /\ outcome'.inst = outcome.inst
           /\ outcome'.arg = outcome.arg)
            => outcome'.call = outcome.call
       /\ outcome'.op = "integrate"
            => /\ heap' = heap
               /\ \A f \in Fields : Ref(sys', outcome'.inst, f) = Ref(sys, outcome'.inst, f)
               /\ sys'[outcome'.inst]._ode_solver = sys[outcome'.inst]._ode_solver]_vars

\* C8 witness: the state after integrate calls of which the first generated
\* the ode function; a further call with the same times leaves it as it is
C8_Witness ==
    /\ outcome.op = "integrate"
    /\ outcome.call.made
    /\ backendCalls = 1
    /\ outcome.call.f = [id |-> 1, generator |-> "lambdify"]
    /\ outcome.call.x0 = <<5, 0>>

\* C9: a step that is no explicit compile call invokes the backend only when
\* it is an integrate call of a System that holds no ode function, then once
\* and with the default generator; an ode function once stored is neither
\* replaced nor dropped by such a step.
C9_CompiledOnce ==
    [][outcome'.op # "generate_ode_function"
        => /\ \A i \in Instances :
                  sys[i]._evaluate_ode_function # None
                      => sys'[i]._evaluate_ode_function = sys[i]._evaluate_ode_function
           /\ backendCalls' # backendCalls
                  => /\ outcome'.op = "integrate"
                     /\ sys[outcome'.inst]._evaluate_ode_function = None
                     /\ backendCalls' = backendCalls + 1
                     /\ sys'[outcome'.inst]._evaluate_ode_function
                            = [id |-> backendCalls', generator |-> "lambdify"]]_vars

\* C9 witness: a setter call, then an integrate call, have kept the function
\* an explicit compile stored
C9_Witness ==
    /\ outcome.op = "integrate"
    /\ outcome.call.made
    /\ backendCalls = 1
    /\ outcome.call.f = [id |-> 1, generator |-> "cython"]
    /\ Stored(outcome.inst, "constants") # EmptyDict

\* C10: an operation on one System (a setter call, or an edit of the mapping
\* a getter returned) changes no mapping observed through another System.
C10_MappingsOwned ==
    [][\A j \in Instances :
          j # outcome'.inst
              => \A f \in Fields : StoredAfter(j, f) = Stored(j, f)]_vars

====
